---- MODULE Spec2Model ----
(***************************************************************************)
(* A model of the travel agent workflow: the fixed chain of eight nodes    *)
(* (graph.py), the tool-call loop of the three tool-bound nodes and the    *)
(* two preference-memory nodes (nodes.py).  The LLM service, the tools and *)
(* the store backend are the environment: every answer, every exception    *)
(* they can give is a nondeterministic choice.                             *)
(*                                                                         *)
(* Texts are sequences of string tokens, so the empty text is << >> and an *)
(* f-string is the concatenation of its pieces.                            *)
(*                                                                         *)
(* Spec is one run of the pipeline, StoreSpec the save node called again   *)
(* and again on one store, ConcurrentSpec two runs whose store operations  *)
(* interleave, and ToolSpec the two tools of tools.py called on their own, *)
(* their arguments and results being the strings of the program.           *)
(***************************************************************************)
EXTENDS Integers, Sequences, FiniteSets, TLC

\* ------------------------------------------------------------------ bounds

\* Tool-requesting LLM responses the model follows inside one node.
MaxRounds == 2
\* Insertions into past_destinations that one behaviour of StoreSpec makes.
MaxInserts == 9

\* ------------------------------------------------------------------ values

EmptyText == << >>

\* The slice of nodes.py:97, past_destinations[-5:].
KeepDestinations == 5

UserIds == {"", "alice"}
StoredUserIds == UserIds \ {""}
\* The destinations of StoreSpec, in the order in which they first come up.
DestinationOrder == <<"Paris", "Rome", "Oslo", "Lima", "Cairo", "Tokyo", "Quito">>
Destinations == {DestinationOrder[i] : i \in 1..Len(DestinationOrder)}
PreferenceTexts == {"budget", "luxury"}
\* What an LLM response may carry as its content.
LLMTexts == {EmptyText, <<"llm text">>}

\* ------------------------------------------------------------ sequences

InSeq(x, s) == \E i \in 1..Len(s) : s[i] = x

NoDuplicates(s) == \A i, j \in 1..Len(s) : s[i] = s[j] => i = j

\* Python's s[-n:].
LastN(s, n) == IF Len(s) <= n THEN s ELSE SubSeq(s, Len(s) - n + 1, Len(s))

\* s without the entries equal to x.
Without(s, x) == SelectSeq(s, LAMBDA y : y # x)

RECURSIVE Flatten(_)
Flatten(ss) == IF ss = << >> THEN << >> ELSE Head(ss) \o Flatten(Tail(ss))

\* ---------------------------------------------------------- state record

\* dict.get(key, default)
Get(d, key, default) == IF key \in DOMAIN d THEN d[key] ELSE default

\* {**d, key: value}
With(d, key, value) ==
    [k \in DOMAIN d \cup {key} |-> IF k = key THEN value ELSE d[k]]

\* The fields of TravelAgentState whose values are plain strings; the other
\* text fields hold texts and messages holds a list of messages.
StringFields == {"user_id", "source", "destination", "start_date", "end_date",
                 "preferences", "hobbies"}
TextFields == {"saved_preferences", "destination_info", "itinerary",
               "accommodations", "activities", "final_plan"}

\* The dictionary collect_travel_details returns for the given answers.
collect_travel_details(destination, preferences, hobbies) ==
    [source |-> "Berlin", destination |-> destination,
     start_date |-> "2024-01-01", end_date |-> "2024-01-10",
     preferences |-> preferences, hobbies |-> hobbies,
     messages |-> << >>,
     destination_info |-> EmptyText, itinerary |-> EmptyText,
     accommodations |-> EmptyText, activities |-> EmptyText,
     final_plan |-> EmptyText]

\* The initial state of a run: main.py passes the dictionary as it is (no
\* user_id); a caller of the deployed graph may add one.
InitialState(has_user_id, uid, destination, preferences, hobbies) ==
    IF has_user_id
    THEN With(collect_travel_details(destination, preferences, hobbies), "user_id", uid)
    ELSE collect_travel_details(destination, preferences, hobbies)

\* ------------------------------------------------------------------ store

\* What the store holds under (("user_preferences", user_id), "preferences"):
\* nothing, a preference record, a value that is no mapping, or a mapping
\* whose past_destinations is no list.
NoItem == [kind |-> "absent", preferences |-> "", hobbies |-> "",
           past_destinations |-> << >>]
NotAMapping == [kind |-> "not_a_mapping", preferences |-> "", hobbies |-> "",
                past_destinations |-> << >>]
Record(p, h, past) == [kind |-> "record", preferences |-> p, hobbies |-> h,
                       past_destinations |-> past]
BadList(p, h) == [kind |-> "bad_list", preferences |-> p, hobbies |-> h,
                  past_destinations |-> << >>]

EmptyStore == [u \in StoredUserIds |-> NoItem]

\* store.search(("user_preferences", user_id)): the items of that namespace.
\* The store is modelled by value: what search returns is a copy, so the
\* append of nodes.py:95 changes the stored list only through store.put.
StoreSearch(st, user_id) ==
    IF st[user_id].kind = "absent" THEN << >> ELSE << st[user_id] >>

StorePutOneNamespace(st, user_id, value) == [u \in DOMAIN st |-> value]

\* store.put(("user_preferences", user_id), key="preferences", value=value)
StorePut(st, user_id, value) == [st EXCEPT ![user_id] = value]

\* --------------------------------------------------- memory nodes

\* nodes.py:53-58, the summary built from a stored value.
SavedPreferencesText(value) ==
    <<"Previous Travel Preferences Found:", value.preferences, value.hobbies>>
        \o (IF value.kind = "bad_list" THEN <<"None">> ELSE value.past_destinations)

load_user_preferences_node_uncaught(state, st, has_store, fault) ==
    LET user_id == Get(state, "user_id", "")
        memories == StoreSearch(st, user_id)
        result(text, outcome) ==
            [state |-> With(state, "saved_preferences", text), outcome |-> outcome]
    IN  IF user_id = "" \/ ~has_store THEN result(EmptyText, "skipped")
        ELSE IF fault = "search_raises" THEN result(EmptyText, "raised")
        ELSE IF memories = << >> THEN result(EmptyText, "absent")
        ELSE IF memories[1].kind = "not_a_mapping" THEN result(EmptyText, "raised")
        ELSE result(SavedPreferencesText(memories[1]), "loaded")

load_user_preferences_node_default_summary(state, st, has_store, fault) ==
    LET user_id == Get(state, "user_id", "")
        memories == StoreSearch(st, user_id)
        result(text, outcome) ==
            [state |-> With(state, "saved_preferences", text), outcome |-> outcome]
    IN  IF user_id = "" \/ ~has_store THEN result(EmptyText, "skipped")
        ELSE IF fault = "search_raises" THEN result(EmptyText, "failed")
        ELSE IF memories = << >> THEN result(SavedPreferencesText(NoItem), "absent")
        ELSE IF memories[1].kind = "not_a_mapping" THEN result(EmptyText, "failed")
        ELSE result(SavedPreferencesText(memories[1]), "loaded")

\* load_user_preferences_node: the returned state and what happened
\* ("skipped": no user id or no store; "failed": an exception was caught).
load_user_preferences_node(state, st, has_store, fault) ==
    LET user_id == Get(state, "user_id", "")
        memories == StoreSearch(st, user_id)
        result(text, outcome) ==
            [state |-> With(state, "saved_preferences", text), outcome |-> outcome]
    IN  IF user_id = "" \/ ~has_store THEN result(EmptyText, "skipped")
        ELSE IF fault = "search_raises" THEN result(EmptyText, "failed")
        ELSE IF memories = << >> THEN result(EmptyText, "absent")
        ELSE IF memories[1].kind = "not_a_mapping" THEN result(EmptyText, "failed")
        ELSE result(SavedPreferencesText(memories[1]), "loaded")

MergeDestinationKeepFirst(past_destinations, current_destination) ==
    IF current_destination # "" /\ ~InSeq(current_destination, past_destinations)
    THEN SubSeq(Append(past_destinations, current_destination), 1,
                IF Len(past_destinations) + 1 <= KeepDestinations
                THEN Len(past_destinations) + 1 ELSE KeepDestinations)
    ELSE past_destinations

MergeDestinationAlways(past_destinations, current_destination) ==
    IF current_destination # ""
    THEN LastN(Append(past_destinations, current_destination), KeepDestinations)
    ELSE past_destinations

MergeDestinationMovingToEnd(past_destinations, current_destination) ==
    IF current_destination # ""
    THEN LastN(Append(Without(past_destinations, current_destination),
                      current_destination), KeepDestinations)
    ELSE past_destinations

\* nodes.py:92-97: the current destination appended if it is not in the list,
\* and then the last five kept.
MergeDestination(past_destinations, current_destination) ==
    IF current_destination # "" /\ ~InSeq(current_destination, past_destinations)
    THEN LastN(Append(past_destinations, current_destination), KeepDestinations)
    ELSE past_destinations

save_user_preferences_node_without_store_test(state, st, has_store, fault) ==
    LET user_id == Get(state, "user_id", "")
        existing_memories == StoreSearch(st, user_id)
        current_destination == Get(state, "destination", "")
        past_destinations ==
            IF existing_memories = << >> THEN << >>
            ELSE existing_memories[1].past_destinations
        is_bad_list ==
            existing_memories # << >> /\ existing_memories[1].kind = "bad_list"
        preference_data ==
            IF is_bad_list
            THEN BadList(Get(state, "preferences", ""), Get(state, "hobbies", ""))
            ELSE Record(Get(state, "preferences", ""), Get(state, "hobbies", ""),
                        MergeDestination(past_destinations, current_destination))
        result(s, outcome) == [store |-> s, outcome |-> outcome]
    IN  IF user_id = "" THEN result(st, "skipped")
        ELSE IF fault = "search_raises" THEN result(st, "failed")
        ELSE IF existing_memories # << >> /\ existing_memories[1].kind = "not_a_mapping"
             THEN result(st, "failed")
        ELSE IF is_bad_list /\ current_destination # "" THEN result(st, "failed")
        ELSE IF fault = "put_raises" THEN result(st, "failed")
        ELSE result(StorePut(st, user_id, preference_data), "saved")

\* save_user_preferences_node: the store afterwards and what happened
\* ("skipped": no user id or no store; "failed": an exception was caught and
\* nothing was written; "saved": store.put returned).
save_user_preferences_node(state, st, has_store, fault) ==
    LET user_id == Get(state, "user_id", "")
        existing_memories == StoreSearch(st, user_id)
        current_destination == Get(state, "destination", "")
        past_destinations ==
            IF existing_memories = << >> THEN << >>
            ELSE existing_memories[1].past_destinations
        is_bad_list ==
            existing_memories # << >> /\ existing_memories[1].kind = "bad_list"
        preference_data ==
            IF is_bad_list
            THEN BadList(Get(state, "preferences", ""), Get(state, "hobbies", ""))
            ELSE Record(Get(state, "preferences", ""), Get(state, "hobbies", ""),
                        MergeDestination(past_destinations, current_destination))
        result(s, outcome) == [store |-> s, outcome |-> outcome]
    IN  IF user_id = "" \/ ~has_store THEN result(st, "skipped")
        ELSE IF fault = "search_raises" THEN result(st, "failed")
        ELSE IF existing_memories # << >> /\ existing_memories[1].kind = "not_a_mapping"
             THEN result(st, "failed")
        ELSE IF is_bad_list /\ current_destination # "" THEN result(st, "failed")
        ELSE IF fault = "put_raises" THEN result(st, "failed")
        ELSE result(StorePut(st, user_id, preference_data), "saved")

\* ------------------------------------------------------------------ graph

END == "END"
FAILED == "FAILED"

\* graph.py:37-44, the nodes in the order they are added.
NodeOrder == <<"load_user_preferences", "validate_input", "research_destination",
               "plan_itinerary", "suggest_accommodations", "recommend_activities",
               "compile_final_plan", "save_user_preferences">>
Nodes == {NodeOrder[i] : i \in 1..Len(NodeOrder)}

\* graph.py:47
EntryPoint == "load_user_preferences"

EdgeSkippingPlan ==
    [load_user_preferences |-> "validate_input",
     validate_input |-> "research_destination",
     research_destination |-> "suggest_accommodations",
     plan_itinerary |-> "suggest_accommodations",
     suggest_accommodations |-> "recommend_activities",
     recommend_activities |-> "compile_final_plan",
     compile_final_plan |-> "save_user_preferences",
     save_user_preferences |-> END]

\* A graph that saves the preferences right after loading them, before the
\* steps that can fail.
EdgeSavingFirst ==
    [load_user_preferences |-> "save_user_preferences",
     save_user_preferences |-> "validate_input",
     validate_input |-> "research_destination",
     research_destination |-> "plan_itinerary",
     plan_itinerary |-> "suggest_accommodations",
     suggest_accommodations |-> "recommend_activities",
     recommend_activities |-> "compile_final_plan",
     compile_final_plan |-> END]

\* graph.py:48-55, one outgoing edge per node.
Edge ==
    [load_user_preferences |-> "validate_input",
     validate_input |-> "research_destination",
     research_destination |-> "plan_itinerary",
     plan_itinerary |-> "suggest_accommodations",
     suggest_accommodations |-> "recommend_activities",
     recommend_activities |-> "compile_final_plan",
     compile_final_plan |-> "save_user_preferences",
     save_user_preferences |-> END]

\* The nodes that call create_llm(use_tools=True) and run the tool loop, and
\* the nodes that call create_llm(use_tools=False).
ToolNodes == {"research_destination", "suggest_accommodations", "recommend_activities"}
PlainNodes == {"plan_itinerary", "compile_final_plan"}

\* The state field each node writes its result to.
OutputField ==
    [load_user_preferences |-> "saved_preferences",
     research_destination |-> "destination_info",
     plan_itinerary |-> "itinerary",
     suggest_accommodations |-> "accommodations",
     recommend_activities |-> "activities",
     compile_final_plan |-> "final_plan"]

\* The state fields the user_prompt f-string of each LLM node reads, in the
\* order of the f-string.
PromptFields ==
    [research_destination |-> <<"destination", "start_date", "end_date", "source",
                                "hobbies", "preferences">>,
     plan_itinerary |-> <<"destination", "start_date", "end_date", "hobbies",
                          "preferences", "destination_info">>,
     suggest_accommodations |-> <<"destination", "start_date", "end_date",
                                  "preferences", "itinerary">>,
     recommend_activities |-> <<"destination", "hobbies", "start_date", "end_date",
                                "preferences", "itinerary">>,
     compile_final_plan |-> <<"destination_info", "itinerary", "accommodations",
                              "activities", "source", "destination", "start_date",
                              "end_date">>]

\* Every state field a node's code reads.
FieldsRead(node) ==
    CASE node = "load_user_preferences" -> {"user_id"}
      [] node = "validate_input" ->
            {"saved_preferences", "source", "destination", "start_date", "end_date",
             "preferences", "hobbies", "messages"}
      [] node = "compile_final_plan" ->
            {PromptFields[node][i] : i \in 1..Len(PromptFields[node])} \cup {"messages"}
      [] node = "save_user_preferences" ->
            {"user_id", "destination", "preferences", "hobbies"}
      [] OTHER -> {PromptFields[node][i] : i \in 1..Len(PromptFields[node])}

\* A field's value as a piece of an f-string.
Render(state, f) == IF f \in StringFields THEN <<state[f]>> ELSE state[f]

\* The user_prompt f-string of an LLM node.
UserPrompt(node, state) ==
    Flatten([i \in 1..Len(PromptFields[node]) |-> Render(state, PromptFields[node][i])])

\* ------------------------------------------------------------ messages

NoCallId == << >>

Message(role, content) ==
    [role |-> role, content |-> content, tool_calls |-> << >>, tool_call_id |-> NoCallId]

\* An AIMessage: the LLM's response.
AIMessage(content, tool_calls) ==
    [role |-> "ai", content |-> content, tool_calls |-> tool_calls,
     tool_call_id |-> NoCallId]

NoResponse == Message("none", EmptyText)

\* A message a node has just built carries no id; the messages channel gives
\* it one when it takes it in.
NoId == 0

MessageId(m) == Get(m, "id", NoId)

RECURSIVE MaxId(_)
MaxId(ms) ==
    IF ms = << >> THEN NoId
    ELSE LET rest == MaxId(Tail(ms))
         IN  IF MessageId(Head(ms)) > rest THEN MessageId(Head(ms)) ELSE rest

RECURSIVE MergeById(_, _)
MergeById(merged, right) ==
    IF right = << >> THEN merged
    ELSE LET m == Head(right)
             at == {i \in 1..Len(merged) : MessageId(merged[i]) = MessageId(m)}
         IN  MergeById(IF at = {} THEN Append(merged, m)
                                  ELSE [i \in 1..Len(merged) |->
                                           IF i \in at THEN m ELSE merged[i]],
                       Tail(right))

add_messages_one_id(left, right) ==
    MergeById(left, [i \in 1..Len(right) |->
                       IF MessageId(right[i]) = NoId THEN With(right[i], "id", 1)
                                                     ELSE right[i]])

\* state.py:27, messages: Annotated[list, add_messages].  The reducer of the
\* channel: every message without an id gets a fresh one, a message of the
\* update whose id is already in the channel replaces that message in place,
\* and every other message of the update is appended.
add_messages(left, right) ==
    LET base == IF MaxId(left) > MaxId(right) THEN MaxId(left) ELSE MaxId(right)
        with_ids == [i \in 1..Len(right) |->
                        IF MessageId(right[i]) = NoId
                        THEN With(right[i], "id", base + i)
                        ELSE right[i]]
    IN  MergeById(left, with_ids)

\* The state after a node returned update: messages goes through its
\* reducer, every other key of the update replaces the value it had.
ApplyUpdate(state, update) ==
    With(update, "messages",
         add_messages(Get(state, "messages", << >>), Get(update, "messages", << >>)))

\* messages = [SystemMessage(system_prompt), HumanMessage(user_prompt)]
InitialMessages(node, state) ==
    << Message("system", <<node>>), Message("human", UserPrompt(node, state)) >>

\* ---------------------------------------------------------------- tools

\* tools.py:75-79, the names of TRAVEL_TOOLS.
TRAVEL_TOOLS == <<"tavily_search_results_json", "calculate_trip_duration",
                  "get_season_info">>

\* next((t for t in TRAVEL_TOOLS if t.name == tool_name), None) is not None
ToolFound(tool_name) == InSeq(tool_name, TRAVEL_TOOLS)

\* str(tool_result) of a tool that returned.
ToolResult(tool_name) == <<"result of", tool_name>>

\* The text an intermediate, tool-requesting response carries.
ToolRequestText == <<"let me look that up">>

\* The tool_calls of a response that asks for the named tools; the ids are
\* the LLM's, one per call.
ToolCalls(names, round) ==
    [i \in 1..Len(names) |-> [name |-> names[i], id |-> <<round, i>>]]

\* The lists of tool names one response may ask for: a registered tool
\* (the search tool), an unregistered one, and both in either order.
ToolNameLists ==
    { <<"tavily_search_results_json">>, <<"book_flight">>,
      <<"tavily_search_results_json", "book_flight">>,
      <<"book_flight", "tavily_search_results_json">>,
      <<"calculate_trip_duration", "tavily_search_results_json">> }

ToolMessagesLastFirst(tool_calls) ==
    Flatten([i \in 1..Len(tool_calls) |->
                LET call == tool_calls[Len(tool_calls) + 1 - i]
                IN  IF ToolFound(call.name)
                    THEN << [role |-> "tool", content |-> ToolResult(call.name),
                             tool_calls |-> << >>, tool_call_id |-> call.id] >>
                    ELSE << >>])

\* nodes.py:184-197, the for loop of one round when no tool raises: one
\* message per call whose tool is found.
ToolMessages(tool_calls) ==
    Flatten([i \in 1..Len(tool_calls) |->
                IF ToolFound(tool_calls[i].name)
                THEN << [role |-> "tool", content |-> ToolResult(tool_calls[i].name),
                         tool_calls |-> << >>, tool_call_id |-> tool_calls[i].id] >>
                ELSE << >>])

\* -------------------------------------------------- tools.py, the two tools

\* What a tool call gives its caller: the returned text, or an exception.
Returned(text) == [raised |-> FALSE, content |-> text]
Raised(exception) == [raised |-> TRUE, content |-> exception]

\* No tool has been invoked yet.
NoToolCall == [name |-> "", args |-> << >>]
NoToolOutput == Returned("")

\* A day of the calendar, and the walk that has not started.
Date(y, m, d) == [year |-> y, month |-> m, day |-> d]
NoDate == Date(0, 0, 0)
NoWalk == [start |-> NoDate, end |-> NoDate, apart |-> 0]

\* No run has saved yet.
NoSave == << >>

Char(s, i) == SubSeq(s, i, i)

DecimalDigits == <<"0", "1", "2", "3", "4", "5", "6", "7", "8", "9">>

IsDigit(c) == InSeq(c, DecimalDigits)

AllDigits(t) == \A i \in 1..Len(t) : IsDigit(Char(t, i))

DigitValue(c) == (CHOOSE i \in 1..Len(DecimalDigits) : DecimalDigits[i] = c) - 1

\* int(t) of a text of digits, a leading blank skipped.
RECURSIVE IntOf(_)
IntOf(t) ==
    IF t = "" \/ t = " " THEN 0
    ELSE 10 * IntOf(SubSeq(t, 1, Len(t) - 1)) + DigitValue(Char(t, Len(t)))

\* The directives of "%Y-%m-%d" as strptime matches them: %Y is four
\* digits, %m is 1[0-2]|0[1-9]|[1-9] and %d is 3[01]|[12]\d|0[1-9]|[1-9]| [1-9].
MatchesYear(t) == Len(t) = 4 /\ AllDigits(t)
MatchesMonth(t) == Len(t) \in {1, 2} /\ AllDigits(t) /\ IntOf(t) \in 1..12
MatchesDay(t) ==
    \/ Len(t) \in {1, 2} /\ AllDigits(t) /\ IntOf(t) \in 1..31
    \/ Len(t) = 2 /\ Char(t, 1) = " " /\ IsDigit(Char(t, 2)) /\ Char(t, 2) # "0"

is_leap(year) == year % 4 = 0 /\ (year % 100 # 0 \/ year % 400 = 0)

days_in_month(year, month) ==
    IF month = 2 THEN (IF is_leap(year) THEN 29 ELSE 28)
    ELSE IF month \in {4, 6, 9, 11} THEN 30 ELSE 31

RECURSIVE days_before_month(_, _)
days_before_month(year, month) ==
    IF month = 1 THEN 0
    ELSE days_before_month(year, month - 1) + days_in_month(year, month - 1)

days_before_year(year) ==
    LET y == year - 1 IN y * 365 + y \div 4 - y \div 100 + y \div 400

\* datetime.toordinal(): the number of the day, 0001-01-01 being day 1.
toordinal(date) ==
    days_before_year(date.year) + days_before_month(date.year, date.month) + date.day

ValueError == [ok |-> FALSE, year |-> 0, month |-> 0, day |-> 0]

\* tools.py:35-36, datetime.strptime(text, "%Y-%m-%d"): the date, or
\* ValueError when the text does not match the format as a whole or names
\* no day of the calendar.
strptime(text) ==
    LET n == Len(text)
        dashes == {p \in 7..n : Char(text, p) = "-"}
        second == CHOOSE p \in dashes : \A q \in dashes : p <= q
        year_text == SubSeq(text, 1, 4)
        month_text == SubSeq(text, 6, second - 1)
        day_text == SubSeq(text, second + 1, n)
    IN  IF /\ n >= 8
           /\ Char(text, 5) = "-"
           /\ dashes # {}
           /\ MatchesYear(year_text)
           /\ MatchesMonth(month_text)
           /\ MatchesDay(day_text)
           /\ IntOf(year_text) >= 1
           /\ IntOf(day_text) <= days_in_month(IntOf(year_text), IntOf(month_text))
        THEN [ok |-> TRUE, year |-> IntOf(year_text), month |-> IntOf(month_text),
              day |-> IntOf(day_text)]
        ELSE ValueError

InvalidDateText == "Invalid date format. Please use YYYY-MM-DD."

calculate_trip_duration_end_unguarded(start_date, end_date) ==
    LET start == strptime(start_date)
        end == strptime(end_date)
    IN  IF ~start.ok THEN Returned(InvalidDateText)
        ELSE IF ~end.ok THEN Raised("ValueError")
        ELSE Returned(ToString(toordinal(end) - toordinal(start) + 1) \o " days")

calculate_trip_duration_exclusive(start_date, end_date) ==
    LET start == strptime(start_date)
        end == strptime(end_date)
    IN  IF start.ok /\ end.ok
        THEN Returned(ToString(toordinal(end) - toordinal(start)) \o " days")
        ELSE Returned(InvalidDateText)

\* tools.py:34-40, calculate_trip_duration.  Both datetimes are at midnight,
\* so (end - start).days is the difference of their day numbers.
calculate_trip_duration(start_date, end_date) ==
    LET start == strptime(start_date)
        end == strptime(end_date)
    IN  IF start.ok /\ end.ok
        THEN Returned(ToString(toordinal(end) - toordinal(start) + 1) \o " days")
        ELSE Returned(InvalidDateText)

UpperLetters == <<"A", "B", "C", "D", "E", "F", "G", "H", "I", "J", "K", "L", "M",
                  "N", "O", "P", "Q", "R", "S", "T", "U", "V", "W", "X", "Y", "Z">>
LowerLetters == <<"a", "b", "c", "d", "e", "f", "g", "h", "i", "j", "k", "l", "m",
                  "n", "o", "p", "q", "r", "s", "t", "u", "v", "w", "x", "y", "z">>

\* str.lower()
RECURSIVE lower(_)
lower(s) ==
    IF s = "" THEN ""
    ELSE LET c == Char(s, 1)
             at == {i \in 1..Len(UpperLetters) : UpperLetters[i] = c}
         IN  (IF at = {} THEN c ELSE LowerLetters[CHOOSE i \in at : TRUE])
                 \o lower(SubSeq(s, 2, Len(s)))

\* tools.py:55-60
northern_hemisphere_seasons ==
    ("12" :> "Winter") @@ ("1" :> "Winter") @@ ("2" :> "Winter") @@
    ("3" :> "Spring") @@ ("4" :> "Spring") @@ ("5" :> "Spring") @@
    ("6" :> "Summer") @@ ("7" :> "Summer") @@ ("8" :> "Summer") @@
    ("9" :> "Fall") @@ ("10" :> "Fall") @@ ("11" :> "Fall")

\* tools.py:62-66
month_names ==
    [january |-> "1", february |-> "2", march |-> "3", april |-> "4",
     may |-> "5", june |-> "6", july |-> "7", august |-> "8",
     september |-> "9", october |-> "10", november |-> "11", december |-> "12"]

\* tools.py:71, the f-string of the answer.
SeasonSentence(destination, month, season) ==
    "In " \o destination \o ", the season in month " \o month \o " is typically "
        \o season
        \o ". Consider checking current weather forecasts for accurate information."

get_season_info_case_sensitive(destination, month) ==
    LET month_num == Get(month_names, month, month)
        season == Get(northern_hemisphere_seasons, month_num, "Unknown")
    IN  Returned(SeasonSentence(destination, month, season))

\* tools.py:68-71, get_season_info.
get_season_info(destination, month) ==
    LET month_num == Get(month_names, lower(month), month)
        season == Get(northern_hemisphere_seasons, month_num, "Unknown")
    IN  Returned(SeasonSentence(destination, month, season))

\* ------------------------------------------------- node return values

\* nodes.py:128-144: the validation message appended to state["messages"].
validate_input_node(state) ==
    LET saved_prefs == Get(state, "saved_preferences", EmptyText)
        validation_message ==
            <<"Travel Details Received:",
              Get(state, "source", "Not provided"),
              Get(state, "destination", "Not provided"),
              Get(state, "start_date", "Not provided"),
              Get(state, "end_date", "Not provided"),
              Get(state, "preferences", "Not provided"),
              Get(state, "hobbies", "Not provided")>> \o saved_prefs
    IN  With(state, "messages",
             Get(state, "messages", << >>) \o << Message("human", validation_message) >>)

NodeReturnClearingHobbies(node, state, content) ==
    IF node = "compile_final_plan"
    THEN With(With(state, "final_plan", content), "messages",
              Get(state, "messages", << >>) \o << Message("human", content) >>)
    ELSE With(With(state, OutputField[node], content), "hobbies", "")

NodeReturnWrongField(node, state, content) ==
    IF node = "recommend_activities"
    THEN With(state, "accommodations", content)
    ELSE IF node = "compile_final_plan"
    THEN With(With(state, "final_plan", content), "messages",
              Get(state, "messages", << >>) \o << Message("human", content) >>)
    ELSE With(state, OutputField[node], content)

\* The return statement of an LLM node (nodes.py:203-206, 246-249, 309-312,
\* 371-374, 419-423): {**state, field: response.content}, and for
\* compile_final_plan the content appended to state["messages"] as well.
NodeReturn(node, state, content) ==
    IF node = "compile_final_plan"
    THEN With(With(state, "final_plan", content), "messages",
              Get(state, "messages", << >>) \o << Message("human", content) >>)
    ELSE With(state, OutputField[node], content)

LoopContinuesOnce(response, rounds) == response.tool_calls # << >> /\ rounds = 0

\* nodes.py:183, 290, 352: while response.tool_calls
LoopContinues(response, rounds) == response.tool_calls # << >>

\* ------------------------------------------------------------- the state

VARIABLES
    pc,               \* the node about to run or running, END or FAILED
    state,            \* the TravelAgentState handed from node to node
    store,            \* the preference store
    has_store,        \* whether the graph was compiled with a store
    messages,         \* the local messages list of the running LLM node
    response,         \* the local response of the running LLM node
    tool_rounds,      \* iterations of the while loop the running node has done
    llm_invocations,  \* llm.invoke calls of the running node (of the last one)
    llm_requests,     \* tool-requesting responses the LLM gave that node
    llm_last_text,    \* content of the last response the LLM gave
    error,            \* the exception that left the pipeline, if any
    trace,            \* the nodes that have completed, in order
    prev_state,       \* the state the last completed node was given
    load_outcome,     \* what load_user_preferences_node did
    save_outcome,     \* what save_user_preferences_node did
    prev_store,       \* the store before the last execution of the save node
    inserts,          \* insertions into past_destinations so far
    first_inserted,   \* destinations in the order of their first insertion
    insert_log,       \* destinations in the order of their latest insertion
    runs,             \* the runs of ConcurrentSpec: position, state and locals
    initial_store,    \* the store the runs of ConcurrentSpec started on
    tool_call,        \* ToolSpec: the tool invoked last and its arguments
    tool_output,      \* ToolSpec: what that invocation gave its caller
    walk,             \* ToolSpec: the days walked from a start date, if any
    last_saved,       \* MemorySpec: the state of the latest run that saved
    run_llm_invocations,  \* llm.invoke calls since the run started
    run_tool_rounds   \* iterations of the tool loops since the run started

vars == <<pc, state, store, has_store, messages, response, tool_rounds,
          llm_invocations, llm_requests, llm_last_text, error, trace, prev_state,
          load_outcome, save_outcome, prev_store, inserts, first_inserted, insert_log,
          runs, initial_store, tool_call, tool_output, walk, last_saved,
          run_llm_invocations, run_tool_rounds>>

concurrent_vars == <<runs, initial_store>>
tool_vars == <<tool_call, tool_output, walk>>
run_vars == <<run_llm_invocations, run_tool_rounds>>
loop_vars == <<messages, response, tool_rounds, llm_invocations, llm_requests,
               llm_last_text>>
memory_vars == <<store, load_outcome, save_outcome, prev_store, inserts,
                 first_inserted, insert_log>>

\* ------------------------------------------------------------ environment

\* What the store may hold for a user when a run starts: nothing, a record
\* an earlier run saved, or a value some other writer left there.
InitialItems == {NoItem, Record("budget", "hiking", <<"Rome">>), NotAMapping,
                 BadList("budget", "hiking")}

\* The initial states of a run: main.py's dictionary (no user_id key), and
\* the same with an empty or a real user id.
RunStates ==
    {InitialState(u[1], u[2], "Paris", "luxury", "food") :
        u \in {<<FALSE, "">>, <<TRUE, "">>, <<TRUE, "alice">>}}

\* The exceptions the store backend may raise in the load and the save node.
LoadFaults == {"none", "search_raises"}
SaveFaults == {"none", "search_raises", "put_raises"}

\* The responses the LLM may give: a final text, or a request for tools.
LLMResponses(round) ==
    {AIMessage(content, << >>) : content \in LLMTexts}
        \cup {AIMessage(ToolRequestText, ToolCalls(names, round)) : names \in ToolNameLists}

\* ------------------------------------------------------------------- Init

Init ==
    /\ pc = EntryPoint
    /\ has_store \in BOOLEAN
    /\ store \in IF has_store THEN [StoredUserIds -> InitialItems] ELSE {EmptyStore}
    /\ state \in RunStates
    /\ messages = << >>
    /\ response = NoResponse
    /\ tool_rounds = 0
    /\ llm_invocations = 0
    /\ llm_requests = 0
    /\ llm_last_text = EmptyText
    /\ error = ""
    /\ trace = << >>
    /\ prev_state = state
    /\ load_outcome = "none"
    /\ save_outcome = "none"
    /\ prev_store = store
    /\ inserts = 0
    /\ first_inserted = store["alice"].past_destinations
    /\ insert_log = store["alice"].past_destinations
    /\ runs = << >>
    /\ initial_store = store
    /\ tool_call = NoToolCall
    /\ tool_output = NoToolOutput
    /\ walk = NoWalk
    /\ last_saved = NoSave
    /\ run_llm_invocations = 0
    /\ run_tool_rounds = 0

\* ---------------------------------------------------------------- executor

\* The node returned new_state: the executor writes it to the channels and
\* follows the node's edge.
Complete(node, new_state) ==
    /\ pc' = Edge[node]
    /\ state' = ApplyUpdate(state, new_state)
    /\ prev_state' = state
    /\ trace' = Append(trace, node)
    /\ error' = error

\* An exception left the node: graph.invoke raises it to its caller.
Raise(exception) ==
    /\ pc' = FAILED
    /\ error' = exception
    /\ UNCHANGED <<state, prev_state, trace>>

\* Whether this execution of the save node puts a destination into the list.
Inserts(s, st, outcome) ==
    /\ outcome = "saved"
    /\ Get(s, "destination", "") # ""
    /\ st[s.user_id].kind \in {"absent", "record"}
    /\ ~InSeq(s.destination, st[s.user_id].past_destinations)

\* The history of insertions after the save node ran on s and st.
RecordSave(s, st, outcome) ==
    IF Inserts(s, st, outcome)
    THEN /\ inserts' = inserts + 1
         /\ first_inserted' = IF InSeq(s.destination, first_inserted)
                               THEN first_inserted
                               ELSE Append(first_inserted, s.destination)
         /\ insert_log' = Append(Without(insert_log, s.destination), s.destination)
    ELSE UNCHANGED <<inserts, first_inserted, insert_log>>

LoadUserPreferences ==
    /\ UNCHANGED <<concurrent_vars, tool_vars, last_saved, run_vars>>
    /\ pc = "load_user_preferences"
    /\ \E fault \in LoadFaults :
          LET r == load_user_preferences_node(state, store, has_store, fault)
          IN  /\ load_outcome' = r.outcome
              /\ IF r.outcome = "raised" THEN Raise("store_error")
                                         ELSE Complete(pc, r.state)
    /\ UNCHANGED <<store, has_store, save_outcome, prev_store, inserts,
                   first_inserted, insert_log>>
    /\ UNCHANGED loop_vars

ValidateInput ==
    /\ UNCHANGED <<concurrent_vars, tool_vars, last_saved, run_vars>>
    /\ pc = "validate_input"
    /\ Complete(pc, validate_input_node(state))
    /\ UNCHANGED <<has_store, loop_vars, memory_vars>>

SaveUserPreferences ==
    /\ UNCHANGED <<concurrent_vars, tool_vars, last_saved, run_vars>>
    /\ pc = "save_user_preferences"
    /\ \E fault \in SaveFaults :
          LET r == save_user_preferences_node(state, store, has_store, fault)
          IN  /\ save_outcome' = r.outcome
              /\ prev_store' = store
              /\ store' = r.store
              /\ RecordSave(state, store, r.outcome)
              /\ IF r.outcome = "raised" THEN Raise("store_error")
                                         ELSE Complete(pc, state)
    /\ UNCHANGED <<has_store, load_outcome, loop_vars>>

\* The locals of an LLM node are gone once it returned or raised.
DropLocals ==
    /\ messages' = << >>
    /\ response' = NoResponse

\* The LLM answered resp to the invocation numbered n of the running node.
Answer(resp, n) ==
    /\ response' = resp
    /\ llm_invocations' = n
    /\ run_llm_invocations' = run_llm_invocations + 1
    /\ llm_requests' = (IF n = 1 THEN 0 ELSE llm_requests)
                          + (IF resp.tool_calls # << >> THEN 1 ELSE 0)
    /\ llm_last_text' = resp.content

LLMFailsCaught(n) ==
    /\ llm_invocations' = n
    /\ run_llm_invocations' = run_llm_invocations + 1
    /\ llm_requests' = (IF n = 1 THEN 0 ELSE llm_requests)
    /\ UNCHANGED llm_last_text
    /\ DropLocals
    /\ error' = "llm_error"
    /\ pc' = Edge[pc]
    /\ trace' = Append(trace, pc)
    /\ UNCHANGED <<state, prev_state>>

\* llm.invoke raised: nothing in the node catches it.
LLMFails(n) ==
    /\ llm_invocations' = n
    /\ run_llm_invocations' = run_llm_invocations + 1
    /\ llm_requests' = (IF n = 1 THEN 0 ELSE llm_requests)
    /\ UNCHANGED llm_last_text
    /\ DropLocals
    /\ Raise("llm_error")

\* A plan or compile node that asks the LLM for a draft and then asks it
\* again to refine the draft.
PlainLLMNodeRefining ==
    /\ UNCHANGED <<concurrent_vars, tool_vars, last_saved, run_tool_rounds>>
    /\ pc \in PlainNodes
    /\ tool_rounds' = 0
    /\ \/ LLMFails(1)
       \/ \E content \in LLMTexts :
             /\ llm_invocations' = 2
             /\ run_llm_invocations' = run_llm_invocations + 2
             /\ llm_requests' = 0
             /\ llm_last_text' = content
             /\ Complete(pc, NodeReturn(pc, state, content))
             /\ DropLocals
    /\ UNCHANGED <<has_store, memory_vars>>

\* plan_itinerary_node and compile_final_plan_node: one llm.invoke, no tools.
PlainLLMNode ==
    /\ UNCHANGED <<concurrent_vars, tool_vars, last_saved, run_tool_rounds>>
    /\ pc \in PlainNodes
    /\ tool_rounds' = 0
    /\ \/ LLMFails(1)
       \/ \E content \in LLMTexts :
             /\ llm_invocations' = 1
             /\ run_llm_invocations' = run_llm_invocations + 1
             /\ llm_requests' = 0
             /\ llm_last_text' = content
             /\ Complete(pc, NodeReturn(pc, state, content))
             /\ DropLocals
    /\ UNCHANGED <<has_store, memory_vars>>

\* A tool-bound node up to its first llm.invoke (nodes.py:156-180).
StartToolNode ==
    /\ UNCHANGED <<concurrent_vars, tool_vars, last_saved, run_tool_rounds>>
    /\ pc \in ToolNodes
    /\ response = NoResponse
    /\ tool_rounds' = 0
    /\ \/ LLMFails(1)
       \/ \E resp \in LLMResponses(1) :
             /\ Answer(resp, 1)
             /\ messages' = InitialMessages(pc, state)
             /\ UNCHANGED <<pc, state, prev_state, trace, error>>
    /\ UNCHANGED <<has_store, memory_vars>>

\* One iteration of the while loop (nodes.py:183-201): the for loop over the
\* requested calls, the two appends and the next llm.invoke.  tool.invoke is
\* not inside a try: a tool that raises ends the node.
ToolRound ==
    /\ UNCHANGED <<concurrent_vars, tool_vars, last_saved>>
    /\ pc \in ToolNodes
    /\ response # NoResponse
    /\ LoopContinues(response, tool_rounds)
    /\ tool_rounds < MaxRounds
    /\ \/ /\ \E i \in 1..Len(response.tool_calls) :
                ToolFound(response.tool_calls[i].name)
          /\ DropLocals
          /\ Raise("tool_error")
          /\ UNCHANGED <<tool_rounds, llm_invocations, llm_requests, llm_last_text,
                         run_vars>>
       \/ /\ tool_rounds' = tool_rounds + 1
          /\ run_tool_rounds' = run_tool_rounds + 1
          /\ \/ LLMFails(llm_invocations + 1)
             \/ \E resp \in LLMResponses(llm_invocations + 1) :
                   /\ Answer(resp, llm_invocations + 1)
                   /\ messages' = (messages \o <<response>>)
                                      \o ToolMessages(response.tool_calls)
                   /\ UNCHANGED <<pc, state, prev_state, trace, error>>
    /\ UNCHANGED <<has_store, memory_vars>>

\* The loop is left and the node returns (nodes.py:203-206).
FinishToolNode ==
    /\ UNCHANGED <<concurrent_vars, tool_vars, last_saved, run_vars>>
    /\ pc \in ToolNodes
    /\ response # NoResponse
    /\ ~LoopContinues(response, tool_rounds)
    /\ Complete(pc, NodeReturn(pc, state, response.content))
    /\ DropLocals
    /\ UNCHANGED <<tool_rounds, llm_invocations, llm_requests, llm_last_text>>
    /\ UNCHANGED <<has_store, memory_vars>>

Next ==
    \/ LoadUserPreferences
    \/ ValidateInput
    \/ StartToolNode
    \/ ToolRound
    \/ FinishToolNode
    \/ PlainLLMNode
    \/ SaveUserPreferences

Spec == Init /\ [][Next]_vars

\* ------------------------------------------- the save node on its own

\* The states the save node is executed on in StoreSpec: any destination
\* (or none) and any preferences for the user, the hobbies going with the
\* preferences, and a state with no user id.
SaveCallStates ==
    {InitialState(TRUE, "alice", d, p, IF p = "budget" THEN "hiking" ELSE "food") :
        d \in Destinations \cup {""}, p \in PreferenceTexts}
        \cup {InitialState(FALSE, "", "Paris", "luxury", "food")}

StoreInit ==
    /\ pc = "save_user_preferences"
    /\ has_store \in BOOLEAN
    /\ store = EmptyStore
    /\ state = InitialState(FALSE, "", "Paris", "luxury", "food")
    /\ messages = << >>
    /\ response = NoResponse
    /\ tool_rounds = 0
    /\ llm_invocations = 0
    /\ llm_requests = 0
    /\ llm_last_text = EmptyText
    /\ error = ""
    /\ trace = << >>
    /\ prev_state = state
    /\ load_outcome = "none"
    /\ save_outcome = "none"
    /\ prev_store = store
    /\ inserts = 0
    /\ first_inserted = << >>
    /\ insert_log = << >>
    /\ runs = << >>
    /\ initial_store = store
    /\ tool_call = NoToolCall
    /\ tool_output = NoToolOutput
    /\ walk = NoWalk
    /\ last_saved = NoSave
    /\ run_llm_invocations = 0
    /\ run_tool_rounds = 0

\* The code never looks inside a destination string, so which of the
\* destinations not saved so far comes up next does not matter: StoreSpec
\* takes them in the order of DestinationOrder.
ComesUp(destination) ==
    \/ destination = ""
    \/ InSeq(destination, first_inserted)
    \/ /\ Len(first_inserted) < Len(DestinationOrder)
       /\ destination = DestinationOrder[Len(first_inserted) + 1]

\* One execution of save_user_preferences_node on a state s, in a sequence
\* of executions that share the store.
SaveCall ==
    /\ UNCHANGED <<concurrent_vars, tool_vars, last_saved, run_vars>>
    /\ pc = "save_user_preferences"
    /\ \E s \in SaveCallStates, fault \in SaveFaults :
          LET r == save_user_preferences_node(s, store, has_store, fault)
          IN  /\ ComesUp(s.destination)
              /\ r.outcome # "raised"
              /\ Inserts(s, store, r.outcome) => inserts < MaxInserts
              /\ state' = s
              /\ prev_state' = s
              /\ save_outcome' = r.outcome
              /\ prev_store' = store
              /\ store' = r.store
              /\ RecordSave(s, store, r.outcome)
    /\ UNCHANGED <<pc, has_store, trace, error, load_outcome, loop_vars>>

StoreNext == SaveCall

StoreSpec == StoreInit /\ [][StoreNext]_vars

\* ------------------------------------- runs that share one store

\* The runs that share the store, and the user ids they run for.
Runs == {1, 2}
SharedUserIds == {"alice", "bob"}
SharedDestinations == {"Paris", "Oslo", "Rome"}

\* The state run r is started with.
RunInput(r, uid, destination) ==
    InitialState(TRUE, uid, destination, IF r = 1 THEN "luxury" ELSE "budget", "food")

\* The store as run r saw it at nodes.py:88: the items store.search returned
\* for the run's namespace, and nothing of any other namespace.
SeenStore(seen, user_id) ==
    [u \in SharedUserIds |-> IF u = user_id /\ seen # << >> THEN seen[1] ELSE NoItem]

\* Every run is at its load node; the store holds nothing or an earlier
\* record for each user.
ConcurrentInit ==
    /\ has_store = TRUE
    /\ store \in [SharedUserIds -> {NoItem, Record("budget", "hiking", <<"Rome">>)}]
    /\ initial_store = store
    /\ tool_call = NoToolCall
    /\ tool_output = NoToolOutput
    /\ walk = NoWalk
    /\ last_saved = NoSave
    /\ run_llm_invocations = 0
    /\ run_tool_rounds = 0
    /\ runs \in {[r \in Runs |-> [pc |-> "load_user_preferences",
                                  input |-> RunInput(r, u[r], d[r]),
                                  state |-> RunInput(r, u[r], d[r]),
                                  seen |-> << >>]] :
                    u \in [Runs -> SharedUserIds], d \in [Runs -> SharedDestinations]}
    /\ pc = END
    /\ state = InitialState(FALSE, "", "Paris", "luxury", "food")
    /\ prev_state = state
    /\ messages = << >>
    /\ response = NoResponse
    /\ tool_rounds = 0
    /\ llm_invocations = 0
    /\ llm_requests = 0
    /\ llm_last_text = EmptyText
    /\ error = ""
    /\ trace = << >>
    /\ load_outcome = "none"
    /\ save_outcome = "none"
    /\ prev_store = store
    /\ inserts = 0
    /\ first_inserted = << >>
    /\ insert_log = << >>

ConcurrentUnchanged ==
    UNCHANGED <<pc, state, has_store, messages, response, tool_rounds,
                llm_invocations, llm_requests, llm_last_text, error, trace,
                prev_state, load_outcome, save_outcome, prev_store, inserts,
                first_inserted, insert_log, initial_store, tool_vars, last_saved,
                run_vars>>

\* Run r executes its load node (nodes.py:37-66), one store.search.  The six
\* nodes between load and save do not touch the store and are passed over.
RunLoad(r) ==
    /\ runs[r].pc = "load_user_preferences"
    /\ runs' = [runs EXCEPT
                  ![r].state = load_user_preferences_node(@, store, has_store, "none").state,
                  ![r].pc = "save_user_preferences"]
    /\ UNCHANGED store
    /\ ConcurrentUnchanged

\* Run r is in its save node and does the store.search of nodes.py:88.
RunSaveSearch(r) ==
    /\ runs[r].pc = "save_user_preferences"
    /\ runs' = [runs EXCEPT ![r].seen = StoreSearch(store, runs[r].state.user_id),
                            ![r].pc = "store.put"]
    /\ UNCHANGED store
    /\ ConcurrentUnchanged

\* Run r does the rest of its save node (nodes.py:90-111): the record built
\* from what the search returned is put under the run's user id.
RunSavePut(r) ==
    /\ runs[r].pc = "store.put"
    /\ LET user_id == runs[r].state.user_id
           saved == save_user_preferences_node(runs[r].state,
                                               SeenStore(runs[r].seen, user_id),
                                               has_store, "none")
       IN  store' = StorePut(store, user_id, saved.store[user_id])
    /\ runs' = [runs EXCEPT ![r].pc = END]
    /\ ConcurrentUnchanged

ConcurrentNext == \E r \in Runs : RunLoad(r) \/ RunSaveSearch(r) \/ RunSavePut(r)

ConcurrentSpec == ConcurrentInit /\ [][ConcurrentNext]_vars

\* ------------------------------------------------- the tools on their own

\* Days a walk goes from its start date, in either direction.
MaxDays == 10


\* The calendar the day walks follow: the leap years among the years
\* walked, and the lengths of the months.
CalendarLeapYears == {2000, 2024}
MonthLength(y, m) ==
    IF m = 2 THEN (IF y \in CalendarLeapYears THEN 29 ELSE 28)
    ELSE <<31, 0, 31, 30, 31, 30, 31, 31, 30, 31, 30, 31>>[m]

NextDay(date) ==
    IF date.day < MonthLength(date.year, date.month)
    THEN Date(date.year, date.month, date.day + 1)
    ELSE IF date.month < 12 THEN Date(date.year, date.month + 1, 1)
    ELSE Date(date.year + 1, 1, 1)

PrevDay(date) ==
    IF date.day > 1 THEN Date(date.year, date.month, date.day - 1)
    ELSE IF date.month > 1
         THEN Date(date.year, date.month - 1, MonthLength(date.year, date.month - 1))
    ELSE Date(date.year - 1, 12, 31)

\* A date written as YYYY-MM-DD, the way main.py asks its user for it.
Padded(n, width) ==
    LET t == ToString(n)
    IN  SubSeq("0000", 1, width - Len(t)) \o t
WrittenDate(date) ==
    Padded(date.year, 4) \o "-" \o Padded(date.month, 2) \o "-" \o Padded(date.day, 2)

\* The dates the walks start from: around the ends of months, of years and
\* of February in leap and other years.
WalkStarts ==
    {Date(2024, 1, 1), Date(2023, 12, 28), Date(2024, 2, 25), Date(2024, 3, 3),
     Date(2023, 2, 24), Date(2100, 2, 25), Date(2000, 3, 4), Date(2024, 4, 27),
     Date(2024, 10, 28)}


\* The date texts the tool is called with, each with the day it names, or
\* NoDate when it names none.
DateInputs ==
    {[text |-> "2024-01-01", date |-> Date(2024, 1, 1)],
     [text |-> "2024-01-10", date |-> Date(2024, 1, 10)],
     [text |-> "2024-1-5", date |-> Date(2024, 1, 5)],
     [text |-> "2024-01- 5", date |-> Date(2024, 1, 5)],
     [text |-> "2024-02-29", date |-> Date(2024, 2, 29)],
     [text |-> "2024-03-01", date |-> Date(2024, 3, 1)],
     [text |-> "2023-12-31", date |-> Date(2023, 12, 31)]}
    \cup {[text |-> t, date |-> NoDate] :
            t \in {"2024-13-01", "2024-02-30", "2023-02-29", "2024-00-10",
                   "2024-01-00", "2024-01-32", "24-01-01", "2024/01/01",
                   "01-01-2024", "", "tomorrow", "2024-01-01 ", " 2024-01-01",
                   "2024-01-01T00:00", "2024-001-01", "0000-01-01", "2024-01",
                   "2024--01-01", "2024-01-1O"}}

MonthTitle == <<"January", "February", "March", "April", "May", "June", "July",
                "August", "September", "October", "November", "December">>
MonthUpper == <<"JANUARY", "FEBRUARY", "MARCH", "APRIL", "MAY", "JUNE", "JULY",
                "AUGUST", "SEPTEMBER", "OCTOBER", "NOVEMBER", "DECEMBER">>
MonthLower == <<"january", "february", "march", "april", "may", "june", "july",
                "august", "september", "october", "november", "december">>
MonthMixed == <<"jANUARY", "FeBrUaRy", "marcH", "aPRIL", "mAy", "juNE", "jUlY",
                "AUGust", "sePTEMber", "OCTober", "NoVeMbEr", "dECEMBER">>

\* The month texts the tool is called with, each with the month it names,
\* or 0 when it is neither an English month name nor a number from 1 to 12.
MonthInputs ==
    {[text |-> names[m], month |-> m] :
        names \in {MonthTitle, MonthUpper, MonthLower, MonthMixed}, m \in 1..12}
    \cup {[text |-> ToString(m), month |-> m] : m \in 1..12}
    \cup {[text |-> t, month |-> 0] :
            t \in {"0", "13", "07", "Jul", "", " 7", "7 ", "July ", "Juli",
                   "winter", "-1", "1.0", "Sept"}}

SeasonDestinations == {"Paris", "Lima"}


\* The pipeline variables, which the tools do not see.
PipelineIdle ==
    /\ pc = END
    /\ has_store = FALSE
    /\ store = EmptyStore
    /\ state = InitialState(FALSE, "", "Paris", "luxury", "food")
    /\ prev_state = state
    /\ messages = << >>
    /\ response = NoResponse
    /\ tool_rounds = 0
    /\ llm_invocations = 0
    /\ llm_requests = 0
    /\ llm_last_text = EmptyText
    /\ error = ""
    /\ trace = << >>
    /\ load_outcome = "none"
    /\ save_outcome = "none"
    /\ prev_store = store
    /\ inserts = 0
    /\ first_inserted = << >>
    /\ insert_log = << >>
    /\ runs = << >>
    /\ initial_store = store

ToolInit ==
    /\ PipelineIdle
    /\ tool_call = NoToolCall
    /\ tool_output = NoToolOutput
    /\ walk = NoWalk
    /\ last_saved = NoSave
    /\ run_llm_invocations = 0
    /\ run_tool_rounds = 0

ToolUnchanged ==
    UNCHANGED <<pc, state, store, has_store, messages, response, tool_rounds,
                llm_invocations, llm_requests, llm_last_text, error, trace,
                prev_state, load_outcome, save_outcome, prev_store, inserts,
                first_inserted, insert_log, runs, initial_store, last_saved,
                run_vars>>

\* tool.invoke of calculate_trip_duration with two date arguments.
InvokeTripDuration(start_date, end_date) ==
    /\ tool_call' = [name |-> "calculate_trip_duration", args |-> <<start_date, end_date>>]
    /\ tool_output' = calculate_trip_duration(start_date, end_date)

\* The tool called on any two of the date texts.
TripDurationCall ==
    /\ \E s \in DateInputs, e \in DateInputs : InvokeTripDuration(s.text, e.text)
    /\ walk' = NoWalk
    /\ ToolUnchanged

\* The tool called on the days of a walk: the start and the day reached.
Walked(start, end, apart) ==
    /\ walk' = [start |-> start, end |-> end, apart |-> apart]
    /\ InvokeTripDuration(WrittenDate(start), WrittenDate(end))

StartWalk ==
    /\ \E d \in WalkStarts : Walked(d, d, 0)
    /\ ToolUnchanged

WalkForward ==
    /\ walk # NoWalk
    /\ walk.apart >= 0
    /\ walk.apart < MaxDays
    /\ Walked(walk.start, NextDay(walk.end), walk.apart + 1)
    /\ ToolUnchanged

WalkBack ==
    /\ walk # NoWalk
    /\ walk.apart <= 0
    /\ walk.apart > -MaxDays
    /\ Walked(walk.start, PrevDay(walk.end), walk.apart - 1)
    /\ ToolUnchanged

\* tool.invoke of get_season_info.
SeasonInfoCall ==
    /\ \E destination \in SeasonDestinations, m \in MonthInputs :
          /\ tool_call' = [name |-> "get_season_info", args |-> <<destination, m.text>>]
          /\ tool_output' = get_season_info(destination, m.text)
    /\ walk' = NoWalk
    /\ ToolUnchanged

ToolNext ==
    \/ TripDurationCall
    \/ StartWalk
    \/ WalkForward
    \/ WalkBack
    \/ SeasonInfoCall

ToolSpec == ToolInit /\ [][ToolNext]_vars

\* --------------------------------------- runs of one user, one after another

\* In MemorySpec the store holds, for every user id, the items of the
\* namespace ("user_preferences", user_id) in the order in which their keys
\* were first put: a sequence of [key, value].
NoItems == [u \in StoredUserIds |-> << >>]

\* store.put(namespace, key=key, value=value): the item with that key is
\* replaced, a new key is added.
KeyedPut(items, user_id, key, value) ==
    LET at == {i \in 1..Len(items[user_id]) : items[user_id][i].key = key}
    IN  [items EXCEPT ![user_id] =
            IF at = {} THEN Append(@, [key |-> key, value |-> value])
            ELSE [i \in 1..Len(@) |-> IF i \in at THEN [key |-> key, value |-> value]
                                                  ELSE @[i]]]

\* What the nodes see of the items: memories[0] of store.search (nodes.py:46-51,
\* 88-90), the first item of the user's namespace.
FirstItems(items) ==
    [u \in DOMAIN items |-> IF items[u] = << >> THEN NoItem ELSE items[u][1].value]

SavePutKeyedByDestination(items, run_state, value) ==
    KeyedPut(items, run_state.user_id, run_state.destination, value)

\* nodes.py:107-111, store.put(namespace, key="preferences", value=preference_data)
SavePut(items, run_state, value) ==
    KeyedPut(items, run_state.user_id, "preferences", value)

\* The states the runs of MemorySpec start with.
MemoryRunStates ==
    {InitialState(TRUE, "alice", d, p, h) :
        d \in {"Paris", "Rome", ""}, p \in PreferenceTexts, h \in {"food", "hiking"}}

MemoryInit ==
    /\ pc = "load_user_preferences"
    /\ has_store = TRUE
    /\ store = NoItems
    /\ initial_store = store
    /\ prev_store = store
    /\ state = InitialState(TRUE, "alice", "Paris", "luxury", "food")
    /\ prev_state = state
    /\ last_saved = NoSave
    /\ load_outcome = "none"
    /\ save_outcome = "none"
    /\ messages = << >>
    /\ response = NoResponse
    /\ tool_rounds = 0
    /\ llm_invocations = 0
    /\ llm_requests = 0
    /\ llm_last_text = EmptyText
    /\ error = ""
    /\ trace = << >>
    /\ inserts = 0
    /\ first_inserted = << >>
    /\ insert_log = << >>
    /\ runs = << >>
    /\ tool_call = NoToolCall
    /\ tool_output = NoToolOutput
    /\ walk = NoWalk
    /\ run_llm_invocations = 0
    /\ run_tool_rounds = 0

MemoryUnchanged ==
    UNCHANGED <<has_store, messages, response, tool_rounds, llm_invocations,
                llm_requests, llm_last_text, error, trace, inserts, first_inserted,
                insert_log, concurrent_vars, tool_vars, run_vars>>

\* A run starts: its load node (nodes.py:27-66) on the store as it is.
MemoryLoad ==
    /\ pc = "load_user_preferences"
    /\ \E s \in MemoryRunStates, fault \in LoadFaults :
          LET r == load_user_preferences_node(s, FirstItems(store), has_store, fault)
          IN  /\ state' = r.state
              /\ prev_state' = s
              /\ load_outcome' = r.outcome
    /\ pc' = "save_user_preferences"
    /\ UNCHANGED <<store, prev_store, save_outcome, last_saved>>
    /\ MemoryUnchanged

\* The run got through its six middle nodes, which do not touch the store,
\* and executes its save node (nodes.py:69-116).
MemorySave ==
    /\ pc = "save_user_preferences"
    /\ \E fault \in SaveFaults :
          LET r == save_user_preferences_node(state, FirstItems(store), has_store, fault)
          IN  /\ save_outcome' = r.outcome
              /\ IF r.outcome = "saved"
                 THEN /\ store' = SavePut(store, state, r.store[state.user_id])
                      /\ last_saved' = state
                 ELSE UNCHANGED <<store, last_saved>>
    /\ prev_store' = store
    /\ pc' = "load_user_preferences"
    /\ UNCHANGED <<state, prev_state, load_outcome>>
    /\ MemoryUnchanged

\* The run ended at one of its middle nodes (an exception of the LLM or of a
\* tool): its save node is never executed.
MemoryRunFails ==
    /\ pc = "save_user_preferences"
    /\ pc' = "load_user_preferences"
    /\ UNCHANGED <<state, prev_state, store, prev_store, load_outcome, save_outcome,
                   last_saved>>
    /\ MemoryUnchanged

MemoryNext == MemoryLoad \/ MemorySave \/ MemoryRunFails

MemorySpec == MemoryInit /\ [][MemoryNext]_vars

\* ================================================================ claims

Last(s) == s[Len(s)]

IsPrefix(s, t) == Len(s) <= Len(t) /\ \A i \in 1..Len(s) : s[i] = t[i]

\* Node n has just returned: nothing has run since.
JustReturned(n) ==
    /\ trace # << >>
    /\ Last(trace) = n
    /\ pc = Edge[n]
    /\ response = NoResponse

\* The stored past_destinations of the user of StoreSpec.
StoredPast == store["alice"].past_destinations

\* The entries of s are in the order in which they occur in t.
OrderedAsIn(s, t) ==
    \A i, j \in 1..Len(s) :
        i < j => \E a, b \in 1..Len(t) : a < b /\ t[a] = s[i] /\ t[b] = s[j]

\* ---- C1

\* The order of the eight steps the claim states.
StatedOrder == <<"load_user_preferences", "validate_input", "research_destination",
                 "plan_itinerary", "suggest_accommodations", "recommend_activities",
                 "compile_final_plan", "save_user_preferences">>

\* C1: the steps that have executed are always an initial part of the stated
\* order (none re-runs, none is skipped), the step about to run is the next
\* one of that order, and a run that has ended has executed all eight.
C1_StepsInStatedOrder ==
    /\ IsPrefix(trace, StatedOrder)
    /\ pc \in Nodes => pc = StatedOrder[Len(trace) + 1]
    /\ pc = END => trace = StatedOrder

C1_Witness == pc = END /\ Len(trace) = 8 /\ error = ""

\* ---- C2

\* The largest round cap for which the model can follow the loop one round
\* further; the code configures none.
ToolRoundCap == MaxRounds - 1

\* C2: the tool loop of a node never runs more rounds than the round cap.
C2_ToolLoopBounded == tool_rounds <= ToolRoundCap

\* ---- C3

\* C3: when a tool-bound node has returned after the LLM asked for tools in
\* its first N responses, the node made N + 1 LLM invocations and its output
\* field is the content of the last response.
C3_InvocationsAndFinalText ==
    \A n \in ToolNodes :
        JustReturned(n) =>
            /\ llm_invocations = llm_requests + 1
            /\ state[OutputField[n]] = llm_last_text

C3_Witness ==
    /\ JustReturned("research_destination")
    /\ llm_requests = MaxRounds
    /\ llm_invocations = MaxRounds + 1
    /\ state.destination_info = <<"llm text">>

\* ---- C4

\* What the claim asks a tool-result turn for an unregistered tool to say.
ToolNotFoundText(tool_name) == <<"tool not found", tool_name>>

\* C4: every tool call of a tool-requesting turn of the conversation has
\* exactly one tool-result turn carrying its id, and for a tool that is not
\* registered that turn says "tool not found".
C4_EveryCallAnswered ==
    \A i \in 1..Len(messages) :
        \A k \in 1..Len(messages[i].tool_calls) :
            LET call == messages[i].tool_calls[k]
                answers == {j \in 1..Len(messages) :
                              /\ messages[j].role = "tool"
                              /\ messages[j].tool_call_id = call.id}
            IN  /\ Cardinality(answers) = 1
                /\ ~ToolFound(call.name) =>
                      \A j \in answers : messages[j].content = ToolNotFoundText(call.name)

\* ---- C5

\* C5: a tool that raises inside the loop never ends the run: the exception
\* does not leave the node.
C5_ToolFailureCaught == ~(pc = FAILED /\ error = "tool_error")

\* ---- C6

C7_OldestEvicted ==
    LET before == prev_store["alice"].past_destinations
    IN  (/\ save_outcome = "saved"
         /\ Len(before) = 5
         /\ state.destination # ""
         /\ ~InSeq(state.destination, before))
        => /\ StoredPast = SubSeq(before, 2, 5) \o <<state.destination>>
           /\ Len(StoredPast) = 5

C7_Witness ==
    /\ save_outcome = "saved"
    /\ prev_store["alice"].past_destinations = <<"Paris", "Rome", "Oslo", "Lima", "Cairo">>
    /\ state.destination = "Tokyo"
    /\ StoredPast = <<"Rome", "Oslo", "Lima", "Cairo", "Tokyo">>

\* ---- C8

DeclaredOutputs ==
    [load_user_preferences |-> {"saved_preferences"},
     validate_input |-> {"messages"},
     research_destination |-> {"destination_info"},
     plan_itinerary |-> {"itinerary"},
     suggest_accommodations |-> {"accommodations"},
     recommend_activities |-> {"activities"},
     compile_final_plan |-> {"final_plan", "messages"},
     save_user_preferences |-> {}]

\* C9: the state the last completed step returned has every field the step
\* does not declare as an output, and only those besides its outputs, with
\* the value it had in the state the step was given.
C9_OnlyDeclaredFieldsWritten ==
    trace # << >> =>
        \A f \in (DOMAIN state \cup DOMAIN prev_state) \ DeclaredOutputs[Last(trace)] :
            /\ f \in DOMAIN state
            /\ f \in DOMAIN prev_state
            /\ state[f] = prev_state[f]

C9_Witness ==
    /\ JustReturned("compile_final_plan")
    /\ state.final_plan = <<"llm text">>
    /\ prev_state.final_plan = EmptyText
    /\ Len(state.messages) = Len(prev_state.messages) + 1
    /\ state.saved_preferences # EmptyText

\* ---- C10

\* The steps that have an output field other than messages.
Producers == DOMAIN OutputField

\* Every field a step reads is an input of the run or the output field of a
\* step that comes earlier in the order of the graph.
ReadsComeFromEarlier ==
    \A i \in 1..Len(NodeOrder) :
        \A f \in FieldsRead(NodeOrder[i]) :
            IF f \in TextFields
            THEN \E j \in 1..(i - 1) :
                    NodeOrder[j] \in Producers /\ OutputField[NodeOrder[j]] = f
            ELSE f \in StringFields \cup {"messages"}

\* C10 as stated: the output field of a step is empty or undefined until the
\* step has run and non-empty once it has, and every field a step reads comes
\* from the initial state or from an earlier step.
C10_OutputsPopulated ==
    /\ \A n \in Producers :
          IF InSeq(n, trace)
          THEN state[OutputField[n]] # EmptyText
          ELSE Get(state, OutputField[n], EmptyText) = EmptyText
    /\ ReadsComeFromEarlier

\* C10 amended: the output field of a step is empty or undefined until the
\* step has run; when an LLM step has just returned its field holds the text
\* of the LLM's last response, empty or not; once load has run,
\* saved_preferences is non-empty exactly when load read a stored value; and
\* every field a step reads comes from the initial state or an earlier step.
C10_OutputsWritten ==
    /\ \A n \in Producers :
          ~InSeq(n, trace) => Get(state, OutputField[n], EmptyText) = EmptyText
    /\ \A n \in ToolNodes \cup PlainNodes :
          JustReturned(n) => state[OutputField[n]] = llm_last_text
    /\ InSeq("load_user_preferences", trace) =>
          (state.saved_preferences # EmptyText <=> load_outcome = "loaded")
    /\ ReadsComeFromEarlier

C10_Witness ==
    /\ pc = END
    /\ load_outcome = "absent"
    /\ state.saved_preferences = EmptyText
    /\ state.itinerary = EmptyText
    /\ state.final_plan = <<"llm text">>

\* C11: the messages of the state are append-only over a run: the messages
\* a step was given are a prefix of the messages after it, so no step
\* removes, replaces or reorders an entry.
C11_MessagesAppendOnly ==
    IsPrefix(Get(prev_state, "messages", << >>), Get(state, "messages", << >>))

C11_Witness ==
    /\ JustReturned("compile_final_plan")
    /\ Len(prev_state.messages) = 1
    /\ Len(state.messages) = 2
    /\ state.messages[1] = prev_state.messages[1]

\* The node that was running when the pipeline stopped: the one after the
\* nodes that completed.
RunningNode == NodeOrder[Len(trace) + 1]

\* C12: when an llm.invoke raises, the exception leaves the node and the
\* pipeline: the run is over at the node that made the call, that node and
\* the nodes after it never complete, the save node has not run and the
\* store is as it was, and no step is enabled any more.
C12_LLMFailurePropagates ==
    error = "llm_error" =>
        /\ pc = FAILED
        /\ Len(trace) < Len(NodeOrder)
        /\ RunningNode \in ToolNodes \cup PlainNodes
        /\ trace = SubSeq(NodeOrder, 1, Len(trace))
        /\ save_outcome = "none"
        /\ store = prev_store
        /\ state.final_plan = EmptyText
        /\ ~ENABLED Next

C12_Witness ==
    /\ error = "llm_error"
    /\ RunningNode = "plan_itinerary"
    /\ state.destination_info = <<"llm text">>
    /\ state.itinerary = EmptyText

\* The user id and the destination of run r of ConcurrentSpec.
RunUser(r) == runs[r].input.user_id
RunDestination(r) == runs[r].input.destination

AllRunsDone == \A r \in Runs : runs[r].pc = END

\* C13: no lost update.  When two runs for the same user id have saved two
\* different destinations, neither of them stored before, the stored
\* past_destinations holds both, whatever the interleaving was.
C13_NoLostUpdate ==
    (/\ AllRunsDone
     /\ RunUser(1) = RunUser(2)
     /\ RunDestination(1) # RunDestination(2)
     /\ \A r \in Runs :
           ~InSeq(RunDestination(r), initial_store[RunUser(r)].past_destinations))
        => \A r \in Runs : InSeq(RunDestination(r), store[RunUser(1)].past_destinations)

\* What run r leaves in the store, and in its saved_preferences, when it is
\* the only run on the store the runs started on.
AloneLoaded(r) == load_user_preferences_node(runs[r].input, initial_store, TRUE, "none").state
AloneSaved(r) == save_user_preferences_node(AloneLoaded(r), initial_store, TRUE, "none").store

\* C14: runs for different user ids on one store do not touch each other's
\* records: what a run loaded is what it would have loaded alone, the
\* record of a user whose run has saved is the record that run alone would
\* have left, and until then it is the record the runs started on.
C14_UsersIsolated ==
    RunUser(1) # RunUser(2) =>
        \A r \in Runs :
            /\ runs[r].pc # "load_user_preferences" =>
                  runs[r].state.saved_preferences = AloneLoaded(r).saved_preferences
            /\ store[RunUser(r)] = IF runs[r].pc = END THEN AloneSaved(r)[RunUser(r)]
                                                       ELSE initial_store[RunUser(r)]

\* Both runs are over, the other run saved between the search and the put
\* of this one, and the two users' records differ.
C14_Witness ==
    /\ AllRunsDone
    /\ RunUser(1) = "alice" /\ RunUser(2) = "bob"
    /\ initial_store["alice"].kind = "record" /\ initial_store["bob"].kind = "absent"
    /\ RunDestination(1) = "Paris" /\ RunDestination(2) = "Oslo"
    /\ store["alice"].past_destinations = <<"Rome", "Paris">>
    /\ store["bob"].past_destinations = <<"Oslo">>
    /\ runs[1].state.saved_preferences # EmptyText
    /\ runs[2].state.saved_preferences = EmptyText

\* C15: with no user id in the state (missing or empty) or no store
\* configured, the load node and the save node skip the store altogether:
\* neither reads nor writes it, saved_preferences is empty after the load
\* node, no store exception ends the run, and the store is the one the run
\* started on.
C15_SkippedWithoutUserOrStore ==
    (Get(state, "user_id", "") = "" \/ ~has_store) =>
        /\ load_outcome \in {"none", "skipped"}
        /\ save_outcome \in {"none", "skipped"}
        /\ InSeq("load_user_preferences", trace) => state.saved_preferences = EmptyText
        /\ error # "store_error"
        /\ store = initial_store

C15_Witness ==
    /\ pc = END
    /\ "user_id" \notin DOMAIN state
    /\ has_store
    /\ store["alice"].kind = "record"
    /\ load_outcome = "skipped"
    /\ save_outcome = "skipped"
    /\ state.saved_preferences = EmptyText

\* C16: the load node run for a user id the store holds no record for
\* returns without an exception, with saved_preferences empty, and leaves
\* the store without a record for that user.
C16_LoadWithoutRecord ==
    (/\ InSeq("load_user_preferences", trace)
     /\ has_store
     /\ Get(state, "user_id", "") # ""
     /\ initial_store[state.user_id].kind = "absent") =>
        /\ load_outcome \in {"absent", "failed"}
        /\ state.saved_preferences = EmptyText
        /\ error # "store_error"
        /\ save_outcome = "none" =>
              /\ store = initial_store
              /\ StoreSearch(store, state.user_id) = << >>

C16_Witness ==
    /\ JustReturned("load_user_preferences")
    /\ has_store
    /\ load_outcome = "absent"
    /\ state.user_id = "alice"
    /\ store["alice"] = NoItem
    /\ state.saved_preferences = EmptyText

\* The labelled input with the given text.
DateInput(text) == CHOOSE i \in DateInputs : i.text = text
MonthInput(text) == CHOOSE i \in MonthInputs : i.text = text

\* The days from date a to a later date b, counted one calendar day at a time.
RECURSIVE DaysUntil(_, _)
DaysUntil(a, b) == IF a = b THEN 0 ELSE 1 + DaysUntil(NextDay(a), b)

Earlier(a, b) ==
    \/ a.year < b.year
    \/ a.year = b.year /\ a.month < b.month
    \/ a.year = b.year /\ a.month = b.month /\ a.day < b.day

\* End minus start in days: negative when the end is the earlier day.
DayCount(start, end) ==
    IF Earlier(end, start) THEN 0 - DaysUntil(end, start) ELSE DaysUntil(start, end)

TripDurationCalled == tool_call.name = "calculate_trip_duration"

\* C17: for two dates that parse, calculate_trip_duration returns the day
\* count from start to end plus 1 as "<n> days", also when the end is before
\* the start (zero or a negative n), and does not raise.  Checked on the
\* days of every walk, where the count is the number of days walked, and on
\* every pair of date texts that name days.
C17_DayCountPlusOne ==
    /\ walk # NoWalk =>
          /\ tool_call.args = <<WrittenDate(walk.start), WrittenDate(walk.end)>>
          /\ tool_output = Returned(ToString(walk.apart + 1) \o " days")
    /\ (TripDurationCalled /\ walk = NoWalk) =>
          LET start == DateInput(tool_call.args[1]).date
              end == DateInput(tool_call.args[2]).date
          IN  (start # NoDate /\ end # NoDate) =>
                  tool_output = Returned(ToString(DayCount(start, end) + 1) \o " days")

C17_Witness ==
    /\ walk.start = Date(2024, 1, 1)
    /\ walk.apart = 9
    /\ tool_call = [name |-> "calculate_trip_duration",
                    args |-> <<"2024-01-01", "2024-01-10">>]
    /\ tool_output = Returned("10 days")

\* C18: when a date argument names no day, calculate_trip_duration returns
\* the invalid-date text and does not raise.
C18_InvalidDateText ==
    (TripDurationCalled /\ walk = NoWalk) =>
        /\ ~tool_output.raised
        /\ (\E i \in 1..2 : DateInput(tool_call.args[i]).date = NoDate) =>
              tool_output = Returned("Invalid date format. Please use YYYY-MM-DD.")

C18_Witness ==
    /\ tool_call = [name |-> "calculate_trip_duration",
                    args |-> <<"2024-01-01", "2024-02-30">>]
    /\ tool_output = Returned("Invalid date format. Please use YYYY-MM-DD.")

Contains(text, part) ==
    \E i \in 1..(Len(text) - Len(part) + 1) : SubSeq(text, i, i + Len(part) - 1) = part

Seasons == {"Winter", "Spring", "Summer", "Fall", "Unknown"}

\* The seasons a text of get_season_info states.
SeasonsIn(text) == {s \in Seasons : Contains(text, " is typically " \o s \o ".")}

\* 12, 1, 2 Winter; 3, 4, 5 Spring; 6, 7, 8 Summer; 9, 10, 11 Fall.
SeasonOfMonth(m) == <<"Winter", "Spring", "Summer", "Fall">>[((m % 12) \div 3) + 1]

\* C19: get_season_info states the Northern-Hemisphere season of the month
\* for an English month name in any letter case and for a number from 1 to
\* 12, the same season for the name and the number of a month, and
\* "Unknown" for every other month text.
C19_SeasonOfMonth ==
    tool_call.name = "get_season_info" =>
        LET destination == tool_call.args[1]
            month == MonthInput(tool_call.args[2]).month
        IN  /\ ~tool_output.raised
            /\ SeasonsIn(tool_output.content) =
                  {IF month = 0 THEN "Unknown" ELSE SeasonOfMonth(month)}
            /\ month # 0 =>
                  SeasonsIn(get_season_info(destination, ToString(month)).content)
                      = SeasonsIn(tool_output.content)

C19_Witness ==
    /\ tool_call = [name |-> "get_season_info", args |-> <<"Lima", "dECEMBER">>]
    /\ SeasonsIn(tool_output.content) = {"Winter"}

\* The call ids of a sequence of tool-result turns, and of tool calls.
ResultIds(turns) == [j \in 1..Len(turns) |-> turns[j].tool_call_id]
CallIds(calls) == [k \in 1..Len(calls) |-> calls[k].id]

\* C20: whenever the conversation of a running node changes, it grows: the
\* turns it had stay where they were, and what is added is the LLM's
\* tool-requesting turn followed by tool-result turns only, which carry the
\* ids of calls of that request, no id twice, in the order of the calls, one
\* for every call whose tool is registered.
C20_RoundAppendsInOrder ==
    [][(messages # << >> /\ messages' # << >> /\ messages' # messages) =>
          LET added == SubSeq(messages', Len(messages) + 1, Len(messages'))
              results == SubSeq(added, 2, Len(added))
              calls == response.tool_calls
          IN  /\ IsPrefix(messages, messages')
              /\ added # << >>
              /\ added[1] = response
              /\ calls # << >>
              /\ \A j \in 1..Len(results) :
                    /\ results[j].role = "tool"
                    /\ InSeq(results[j].tool_call_id, CallIds(calls))
              /\ NoDuplicates(ResultIds(results))
              /\ OrderedAsIn(ResultIds(results), CallIds(calls))
              /\ Len(results) = Cardinality({k \in 1..Len(calls) : ToolFound(calls[k].name)})
      ]_vars

\* A round that asked for two registered tools has been appended: the
\* request, then the result of the first call, then that of the second.
C20_Witness ==
    /\ Len(messages) = 5
    /\ Len(messages[3].tool_calls) = 2
    /\ messages[4].role = "tool"
    /\ messages[5].role = "tool"
    /\ messages[4].tool_call_id = messages[3].tool_calls[1].id
    /\ messages[5].tool_call_id = messages[3].tool_calls[2].id
    /\ messages[4].content # messages[5].content

\* C21: after any sequence of runs for one user the store holds at most one
\* record for that user, and what the load node of the next run reads is the
\* record of the latest run that saved: its preferences and its hobbies.
\* Before any run has saved there is nothing to read.
C21_MostRecentWriteWins ==
    /\ \A u \in StoredUserIds : Len(store[u]) <= 1
    /\ last_saved = NoSave <=> store["alice"] = << >>
    /\ (pc = "save_user_preferences" /\ load_outcome # "failed") =>
          IF last_saved = NoSave
          THEN load_outcome = "absent" /\ state.saved_preferences = EmptyText
          ELSE /\ load_outcome = "loaded"
               /\ Len(state.saved_preferences) >= 3
               /\ state.saved_preferences[2] = last_saved.preferences
               /\ state.saved_preferences[3] = last_saved.hobbies

\* The run before the last saved budget and hiking, the last run saved
\* luxury and food, and this run's load node has read luxury and food.
C21_Witness ==
    /\ pc = "save_user_preferences"
    /\ load_outcome = "loaded"
    /\ last_saved.preferences = "luxury"
    /\ last_saved.hobbies = "food"
    /\ last_saved.saved_preferences # EmptyText
    /\ last_saved.saved_preferences[2] = "budget"
    /\ last_saved.saved_preferences[3] = "hiking"
    /\ state.preferences = "budget"
    /\ state.saved_preferences[2] = "luxury"
    /\ state.saved_preferences[3] = "food"

\* C22: a save whose destination is empty or already in the stored list
\* leaves the list as it was, entry for entry, and overwrites preferences
\* and hobbies with those of the run.
C22_RevisitKeepsList ==
    LET before == prev_store["alice"]
    IN  (/\ save_outcome = "saved"
         /\ state.destination = "" \/ InSeq(state.destination, before.past_destinations))
        => /\ StoredPast = before.past_destinations
           /\ store["alice"].preferences = state.preferences
           /\ store["alice"].hobbies = state.hobbies

\* The oldest of four stored destinations was saved again, by a run with
\* other preferences and hobbies than the stored ones.
C22_Witness ==
    LET before == prev_store["alice"]
    IN  /\ save_outcome = "saved"
        /\ Len(before.past_destinations) = 4
        /\ state.destination = before.past_destinations[1]
        /\ before.preferences # state.preferences
        /\ before.hobbies # state.hobbies
        /\ StoredPast = before.past_destinations
        /\ store["alice"].preferences = state.preferences

ToolBoundSteps == {"research_destination", "suggest_accommodations",
                   "recommend_activities"}
SingleCallSteps == {"plan_itinerary", "compile_final_plan"}
SilentSteps == {"load_user_preferences", "validate_input",
                "save_user_preferences"}

\* What one step of the run may do to the run's totals.
C24_StepOfRun ==
    /\ run_tool_rounds' # run_tool_rounds =>
          /\ pc \in ToolBoundSteps
          /\ run_tool_rounds' = run_tool_rounds + 1
    /\ messages' # messages => pc \in ToolBoundSteps
    /\ run_llm_invocations' # run_llm_invocations =>
          /\ pc \in ToolBoundSteps \cup SingleCallSteps
          /\ run_llm_invocations' = run_llm_invocations + 1
    /\ (pc \in SingleCallSteps /\ pc' # pc) =>
          /\ run_llm_invocations' = run_llm_invocations + 1
          /\ run_tool_rounds' = run_tool_rounds
    /\ pc \in SilentSteps =>
          /\ run_llm_invocations' = run_llm_invocations
          /\ run_tool_rounds' = run_tool_rounds

\* What the totals are between the steps.
C24_Totals ==
    /\ pc \in {"load_user_preferences", "validate_input"} =>
          /\ run_llm_invocations = 0
          /\ run_tool_rounds = 0
    /\ \A n \in SingleCallSteps :
          JustReturned(n) => llm_invocations = 1 /\ tool_rounds = 0
    /\ pc \in {"save_user_preferences", END} =>
          run_llm_invocations = 5 + run_tool_rounds

\* C24: tools are executed, and the LLM is invoked more than once, only in
\* research_destination, suggest_accommodations and recommend_activities.
\* A tool round happens only while one of these three runs; plan_itinerary
\* and compile_final_plan each make exactly one LLM invocation and no tool
\* round; load_user_preferences, validate_input and save_user_preferences
\* make none; a completed run has made 5 invocations plus one per tool round.
C24_LLMInvocationsPerRun == [] C24_Totals /\ [][C24_StepOfRun]_vars

\* A completed run with tool rounds in more than one step.
C24_Witness ==
    /\ pc = END
    /\ error = ""
    /\ run_tool_rounds = 3
    /\ run_llm_invocations = 8

====
